---- MODULE Spec2Model ----
(***************************************************************************)
(* A model of quake_map_generator.py: the geometry builder (box brushes,   *)
(* hollow rooms, spiral staircases, pillars, platforms) and the map        *)
(* serializer QuakeMapWriter (add_entity, write, _write_brush).            *)
(*                                                                         *)
(* Numbers.  Python coordinates are ints or floats.  Every coordinate of   *)
(* the model is a fixed-point number counted in quarters of a unit: the    *)
(* model value v stands for the Python value v/4, so Q(n) = 4n is the      *)
(* integer n and 6 is 1.5.  Sums, differences and products by an integer   *)
(* are exact; the two divisions of the code (by 2 and by steps) are exact  *)
(* on the inputs drawn below.                                              *)
(*                                                                         *)
(* Output.  The file is the sequence of its lines.  A line is a record     *)
(* [kind, text, nums]: kind names the line's fixed text, text holds the    *)
(* strings interpolated into it and nums the integers interpolated into    *)
(* it, in the order the f-string prints them.                              *)
(***************************************************************************)
EXTENDS Integers, Sequences, FiniteSets, TLC

VARIABLES
    entities,   \* QuakeMapWriter.entities: the list add_entity appends to
    file,       \* the lines of the file named self.filename
    status,     \* how the last writer call ended: "ok" or the exception raised
    lastOp,     \* the last writer call: "init", "add_entity", "write", or
                \* "rewrite" for a write that directly follows a write
    call,       \* the last geometry call: function name and arguments
    ret,        \* what the last geometry call returned
    raised      \* the exception the last geometry call raised, or "none"

writerVars == <<entities, file, status, lastOp>>
geomVars == <<call, ret, raised>>
vars == <<entities, file, status, lastOp, call, ret, raised>>

(***************************************************************************)
(* Numbers                                                                 *)
(***************************************************************************)

\* The integer n as a fixed-point value.
Q(n) == 4 * n

\* int(v): truncation toward zero, the result a plain integer.
int(v) == IF v >= 0 THEN v \div 4 ELSE -((-v) \div 4)

(***************************************************************************)
(* Geometry builder                                                        *)
(***************************************************************************)

\* The planes list of create_box_brush, in the order the source lists it.
BoxPlanes(x1, y1, z1, x2, y2, z2) ==
    << \* Top face
       << <<x1, y2, z2>>, <<x2, y2, z2>>, <<x2, y1, z2>> >>,
       \* Bottom face
       << <<x1, y1, z1>>, <<x2, y1, z1>>, <<x2, y2, z1>> >>,
       \* North face (+Y)
       << <<x1, y2, z2>>, <<x1, y2, z1>>, <<x2, y2, z1>> >>,
       \* South face (-Y)
       << <<x2, y1, z2>>, <<x2, y1, z1>>, <<x1, y1, z1>> >>,
       \* East face (+X)
       << <<x2, y1, z2>>, <<x2, y1, z1>>, <<x2, y2, z1>> >>,
       \* West face (-X)
       << <<x1, y2, z2>>, <<x1, y2, z1>>, <<x1, y1, z1>> >> >>

create_box_brush(min_point, max_point, texture) ==
    [planes |-> BoxPlanes(min_point[1], min_point[2], min_point[3],
                          max_point[1], max_point[2], max_point[3]),
     texture |-> texture]

\* The default texture argument of every builder.
DefaultTexture == "__TB_empty"

\* A hollow room whose walls run the room's full height, through both slabs.
create_hollow_room_tall_walls(origin, size, thickness, wall_tex, floor_tex) ==
    LET x == origin[1]
        y == origin[2]
        z == origin[3]
        w == size[1]
        d == size[2]
        h == size[3]
        floor == create_box_brush(<<x, y, z>>,
                                  <<x + w, y + d, z + thickness>>, floor_tex)
        ceiling == create_box_brush(<<x, y, z + h - thickness>>,
                                    <<x + w, y + d, z + h>>, wall_tex)
        north == create_box_brush(<<x, y + d - thickness, z>>,
                                  <<x + w, y + d, z + h>>, wall_tex)
        south == create_box_brush(<<x, y, z>>,
                                  <<x + w, y + thickness, z + h>>, wall_tex)
        west == create_box_brush(<<x, y, z>>,
                                 <<x + thickness, y + d, z + h>>, wall_tex)
        east == create_box_brush(<<x + w - thickness, y, z>>,
                                 <<x + w, y + d, z + h>>, wall_tex)
    IN  <<floor, ceiling, north, south, west, east>>

\* create_hollow_room: floor, ceiling, north, south, west, east.
create_hollow_room(origin, size, thickness, wall_tex, floor_tex) ==
    LET x == origin[1]
        y == origin[2]
        z == origin[3]
        w == size[1]
        d == size[2]
        h == size[3]
        floor == create_box_brush(<<x, y, z>>,
                                  <<x + w, y + d, z + thickness>>, floor_tex)
        ceiling == create_box_brush(<<x, y, z + h - thickness>>,
                                    <<x + w, y + d, z + h>>, wall_tex)
        north == create_box_brush(<<x, y + d - thickness, z + thickness>>,
                                  <<x + w, y + d, z + h - thickness>>, wall_tex)
        south == create_box_brush(<<x, y, z + thickness>>,
                                  <<x + w, y + thickness, z + h - thickness>>,
                                  wall_tex)
        west == create_box_brush(<<x, y, z + thickness>>,
                                 <<x + thickness, y + d, z + h - thickness>>,
                                 wall_tex)
        east == create_box_brush(<<x + w - thickness, y, z + thickness>>,
                                 <<x + w, y + d, z + h - thickness>>, wall_tex)
    IN  <<floor, ceiling, north, south, west, east>>

\* Local constants of create_spiral_staircase.
step_width == Q(48)
step_depth == Q(64)
step_thickness == Q(8)

\* math.cos and math.sin of math.radians(deg) at the quarter turns, by their
\* real values.  The double the library returns differs from these by less
\* than 2e-16 (cos 90 is 6.1e-17, not 0); no property below reads the x or y
\* of a step.
Cos(deg) == CASE deg = 0 -> 1 [] deg = 90 -> 0 [] deg = 180 -> -1 [] deg = 270 -> 0
Sin(deg) == CASE deg = 0 -> 0 [] deg = 90 -> 1 [] deg = 180 -> 0 [] deg = 270 -> -1

\* The step that iteration i of the loop builds.  angle_per_step and angle are
\* plain degrees; everything else is fixed-point.
StaircaseStep(origin, radius, step_height, angle_per_step, i, texture) ==
    LET angle == i * angle_per_step
        step_x == origin[1] + radius * Cos(angle)
        step_y == origin[2] + radius * Sin(angle)
        step_z == origin[3] + i * step_height
    IN  create_box_brush(
            <<step_x - step_width \div 2, step_y - step_depth \div 2, step_z>>,
            <<step_x + step_width \div 2, step_y + step_depth \div 2,
              step_z + step_thickness>>,
            texture)

\* create_spiral_staircase: height / steps and 360 / steps are evaluated
\* before the loop, so steps = 0 raises ZeroDivisionError; range(steps) is
\* empty for a negative steps.
create_spiral_staircase(origin, radius, height, steps, texture) ==
    IF steps = 0
    THEN [raised |-> "ZeroDivisionError", value |-> <<>>]
    ELSE [raised |-> "none",
          value |-> IF steps < 0
                    THEN <<>>
                    ELSE [k \in 1..steps |->
                            StaircaseStep(origin, radius, height \div steps,
                                          360 \div steps, k - 1, texture)]]

create_pillar(origin, width, height, texture) ==
    << create_box_brush(origin,
                        <<origin[1] + width, origin[2] + width, origin[3] + height>>,
                        texture) >>

create_platform(origin, size, height, texture) ==
    << create_box_brush(origin,
                        <<origin[1] + size[1], origin[2] + size[2], origin[3] + height>>,
                        texture) >>

(***************************************************************************)
(* Map serializer                                                          *)
(***************************************************************************)

\* QuakeMapWriter.__init__: no entity yet.
NoEntities == <<>>

\* add_entity's entity dict.  A properties dict is the sequence of its
\* <<key, value>> items in insertion order, the order .items() yields; the
\* defaults None, {} and [] all become the empty one ("x or {}", "x or []").
add_entity(classname, properties, brushes) ==
    [classname |-> classname, properties |-> properties, brushes |-> brushes]

Line(kind, text, nums) == [kind |-> kind, text |-> text, nums |-> nums]

\* The lines f.write produces.
GameComment == Line("// Game: Quake", <<>>, <<>>)
FormatComment == Line("// Format: Standard", <<>>, <<>>)
EntityComment(entity_num) == Line("// entity", <<>>, <<entity_num>>)
OpenBrace == Line("{", <<>>, <<>>)
CloseBrace == Line("}", <<>>, <<>>)
PropertyLine(key, value) == Line("property", <<key, value>>, <<>>)
ClassnameLine(classname) == PropertyLine("classname", classname)

\* One plane's line: the three points' coordinates through int(), the texture
\* and the five fixed fields.
PlaneLine(p1, p2, p3, texture) ==
    Line("plane", <<texture>>,
         <<int(p1[1]), int(p1[2]), int(p1[3]),
           int(p2[1]), int(p2[2]), int(p2[3]),
           int(p3[1]), int(p3[2]), int(p3[3]),
           0, 0, 0, 1, 1>>)

\* What a stretch of write has put in the file, and the exception that ended
\* it ("none": it ran through).  The with-block closes the file on every exit,
\* so the lines written before an exception stay in the file.
Written(lines) == [lines |-> lines, raised |-> "none"]
Then(a, b) ==
    IF a.raised = "none"
    THEN [lines |-> a.lines \o b.lines, raised |-> b.raised]
    ELSE a

\* A _write_brush that skips a plane of other than three points instead of
\* unpacking it.
_write_brush_lenient(brush) ==
    LET good == SelectSeq(brush.planes, LAMBDA plane : Len(plane) = 3)
        body == [i \in 1..Len(good) |->
                    PlaneLine(good[i][1], good[i][2], good[i][3], brush.texture)]
    IN  Written(<<OpenBrace>> \o body \o <<CloseBrace>>)

\* _write_brush: "p1, p2, p3 = plane" raises ValueError at the first plane
\* that does not hold exactly three points; the planes before it are written.
_write_brush(brush) ==
    LET planes == brush.planes
        bad == {i \in 1..Len(planes) : Len(planes[i]) # 3}
        n == IF bad = {}
             THEN Len(planes)
             ELSE (CHOOSE i \in bad : \A j \in bad : i <= j) - 1
        body == [i \in 1..n |->
                    PlaneLine(planes[i][1], planes[i][2], planes[i][3],
                              brush.texture)]
    IN  IF bad = {}
        THEN Written(<<OpenBrace>> \o body \o <<CloseBrace>>)
        ELSE [lines |-> <<OpenBrace>> \o body, raised |-> "ValueError"]

\* "for brush in brushes: self._write_brush(f, brush)"
RECURSIVE WriteBrushes(_)
WriteBrushes(brushes) ==
    IF brushes = <<>>
    THEN Written(<<>>)
    ELSE Then(_write_brush(Head(brushes)), WriteBrushes(Tail(brushes)))

\* The list comprehension named worldspawn_brushes: the entities whose
\* classname is worldspawn, in insertion order.
worldspawn_brushes(ents) ==
    SelectSeq(ents, LAMBDA e : e.classname = "worldspawn")

\* A header that writes the entity 0 block only when a worldspawn entity was
\* added.
WorldspawnBlockIfFound(ents) ==
    IF worldspawn_brushes(ents) = <<>>
    THEN Written(<<GameComment, FormatComment>>)
    ELSE Then(Written(<<GameComment, FormatComment, EntityComment(0), OpenBrace,
                        ClassnameLine("worldspawn")>>),
         Then(WriteBrushes(worldspawn_brushes(ents)[1].brushes),
              Written(<<CloseBrace>>)))

\* The header comment and the entity 0 block.
WorldspawnBlock(ents) ==
    Then(Written(<<GameComment, FormatComment, EntityComment(0), OpenBrace,
                   ClassnameLine("worldspawn")>>),
    Then(IF worldspawn_brushes(ents) # <<>>
         THEN WriteBrushes(worldspawn_brushes(ents)[1].brushes)
         ELSE Written(<<>>),
         Written(<<CloseBrace>>)))

\* The property lines of an entity.
PropertyLines(properties) ==
    [i \in 1..Len(properties) |-> PropertyLine(properties[i][1], properties[i][2])]

\* The body of the loop over self.entities for one entity.
OtherEntityBlock(entity, entity_num) ==
    IF entity.classname # "worldspawn"
    THEN Then(Written(<<EntityComment(entity_num), OpenBrace,
                        ClassnameLine(entity.classname)>>
                      \o PropertyLines(entity.properties)),
         Then(WriteBrushes(entity.brushes), Written(<<CloseBrace>>)))
    ELSE Written(<<>>)

\* An entity_num incremented for every entity, the worldspawn ones included.
EntityNumAfterAny(entity, entity_num) == entity_num + 1

\* entity_num after the loop body: incremented inside the if.
EntityNumAfter(entity, entity_num) ==
    IF entity.classname # "worldspawn" THEN entity_num + 1 ELSE entity_num

\* "for entity in self.entities", entity_num being the counter on entry.
RECURSIVE WriteOthers(_, _)
WriteOthers(ents, entity_num) ==
    IF ents = <<>>
    THEN Written(<<>>)
    ELSE Then(OtherEntityBlock(Head(ents), entity_num),
              WriteOthers(Tail(ents), EntityNumAfter(Head(ents), entity_num)))

\* A write that emits the entities in one pass and the entity 0 block last.
write_worldspawn_last(ents) == Then(WriteOthers(ents, 1), WorldspawnBlock(ents))

\* write: everything it puts in the file.
write(ents) == Then(WorldspawnBlock(ents), WriteOthers(ents, 1))

\* open(self.filename, "a"): the file's old content is kept.
OpenForAppending(old) == old

\* open(self.filename, "w"): the file's old content is dropped.
OpenForWriting(old) == <<>>

(***************************************************************************)
(* Inputs                                                                  *)
(***************************************************************************)

\* The most entities a writer is given.
MaxEntities == 2

Classnames == {"worldspawn", "light", "info_player_start"}

PropertiesInputs ==
    { <<>>, << <<"origin", "256 256 32">>, <<"angle", "0">> >> }

\* A box with corners (-1.5, 0, 0.25) and (1.5, 1, 2).
SampleBox == create_box_brush(<<-6, 0, 1>>, <<6, Q(1), Q(2)>>, DefaultTexture)
\* A brush of two planes.
TwoPlaneBrush == [planes |-> SubSeq(SampleBox.planes, 1, 2), texture |-> "wall"]
\* A brush whose second plane holds two points.
TwoPointBrush ==
    [planes |-> [SampleBox.planes EXCEPT ![2] = SubSeq(@, 1, 2)],
     texture |-> DefaultTexture]

BrushesInputs ==
    { <<>>, <<SampleBox>>, <<TwoPlaneBrush>>, <<SampleBox, TwoPointBrush>> }

Coord == {-4, 0, 6}
Points == Coord \X Coord \X Coord
Textures == {DefaultTexture}

RoomOrigins == { <<0, 0, 0>>, <<Q(600), 0, 0>>, <<-4, 6, 4>> }
RoomSizes == { <<Q(512), Q(512), Q(256)>>, <<Q(3), Q(4), Q(5)>>, <<Q(1), Q(1), Q(1)>> }
Thicknesses == {0, Q(1), Q(16)}

StairOrigins == { <<0, 0, 0>>, <<Q(256), Q(256), Q(16)>> }
Radii == {0, Q(100)}
Heights == {Q(1), Q(180)}
StepCounts == {-1, 0, 1, 2, 4}

PillarWidths == {Q(32), 6}
PlatformSizes == { <<Q(200), Q(150)>>, <<6, 2>> }

(***************************************************************************)
(* The writer as a state machine                                           *)
(***************************************************************************)

WriterInit ==
    /\ entities = NoEntities
    /\ file = <<>>
    /\ status = "ok"
    /\ lastOp = "init"

NoCall ==
    /\ call = [fn |-> "none"]
    /\ ret = <<>>
    /\ raised = "none"

Init == WriterInit /\ NoCall

AddEntity ==
    \E classname \in Classnames, properties \in PropertiesInputs,
       brushes \in BrushesInputs :
        /\ Len(entities) < MaxEntities
        /\ entities' = Append(entities, add_entity(classname, properties, brushes))
        /\ status' = "ok"
        /\ lastOp' = "add_entity"
        /\ UNCHANGED <<file, call, ret, raised>>

Write ==
    LET out == write(entities)
    IN  /\ file' = OpenForWriting(file) \o out.lines
        /\ status' = IF out.raised = "none" THEN "ok" ELSE out.raised
        /\ lastOp' = IF lastOp \in {"write", "rewrite"} THEN "rewrite" ELSE "write"
        /\ UNCHANGED <<entities, call, ret, raised>>

Next == AddEntity \/ Write

Spec == Init /\ [][Next]_vars

(***************************************************************************)
(* The geometry builder as a state machine: one call per step              *)
(***************************************************************************)

CallCreateBoxBrush ==
    \E min_point \in Points, max_point \in Points, texture \in Textures :
        /\ call' = [fn |-> "create_box_brush", min_point |-> min_point,
                    max_point |-> max_point, texture |-> texture]
        /\ ret' = create_box_brush(min_point, max_point, texture)
        /\ raised' = "none"
        /\ UNCHANGED writerVars

CallCreateHollowRoom ==
    \E origin \in RoomOrigins, size \in RoomSizes, thickness \in Thicknesses :
        /\ call' = [fn |-> "create_hollow_room", origin |-> origin,
                    size |-> size, thickness |-> thickness]
        /\ ret' = create_hollow_room(origin, size, thickness,
                                     DefaultTexture, DefaultTexture)
        /\ raised' = "none"
        /\ UNCHANGED writerVars

CallCreateSpiralStaircase ==
    \E origin \in StairOrigins, radius \in Radii, height \in Heights,
       steps \in StepCounts :
        LET r == create_spiral_staircase(origin, radius, height, steps,
                                         DefaultTexture)
        IN  /\ call' = [fn |-> "create_spiral_staircase", origin |-> origin,
                        radius |-> radius, height |-> height, steps |-> steps]
            /\ ret' = r.value
            /\ raised' = r.raised
            /\ UNCHANGED writerVars

CallCreatePillar ==
    \E origin \in RoomOrigins, width \in PillarWidths, height \in Heights :
        /\ call' = [fn |-> "create_pillar", origin |-> origin,
                    width |-> width, height |-> height]
        /\ ret' = create_pillar(origin, width, height, DefaultTexture)
        /\ raised' = "none"
        /\ UNCHANGED writerVars

CallCreatePlatform ==
    \E origin \in RoomOrigins, size \in PlatformSizes, height \in Heights :
        /\ call' = [fn |-> "create_platform", origin |-> origin,
                    size |-> size, height |-> height]
        /\ ret' = create_platform(origin, size, height, DefaultTexture)
        /\ raised' = "none"
        /\ UNCHANGED writerVars

GeomNext ==
    \/ CallCreateBoxBrush
    \/ CallCreateHollowRoom
    \/ CallCreateSpiralStaircase
    \/ CallCreatePillar
    \/ CallCreatePlatform

GeomSpec == Init /\ [][GeomNext]_vars

(***************************************************************************)
(* Vocabulary of the properties                                            *)
(***************************************************************************)

\* (p2 - p1) x (p3 - p1) of a plane's three points.
Normal(plane) ==
    LET a == [i \in 1..3 |-> plane[2][i] - plane[1][i]]
        b == [i \in 1..3 |-> plane[3][i] - plane[1][i]]
    IN  <<a[2] * b[3] - a[3] * b[2],
          a[3] * b[1] - a[1] * b[3],
          a[1] * b[2] - a[2] * b[1]>>

\* The outward axis of each face, in the order top, bottom, north, south,
\* east, west.
OutwardAxis ==
    << <<0, 0, 1>>, <<0, 0, -1>>, <<0, 1, 0>>, <<0, -1, 0>>, <<1, 0, 0>>, <<-1, 0, 0>> >>

\* n is a positive multiple of axis.
PointsAlong(n, axis) ==
    /\ \A i \in 1..3 : axis[i] = 0 => n[i] = 0
    /\ n[1] * axis[1] + n[2] * axis[2] + n[3] * axis[3] > 0

\* The corners of a box brush, read off its faces: west, south and bottom
\* give the low corner, east, north and top the high one.
LowCorner(brush) ==
    <<brush.planes[6][1][1], brush.planes[4][1][2], brush.planes[2][1][3]>>
HighCorner(brush) ==
    <<brush.planes[5][1][1], brush.planes[3][1][2], brush.planes[1][1][3]>>

Larger(a, b) == IF a >= b THEN a ELSE b
Smaller(a, b) == IF a <= b THEN a ELSE b

\* Two box brushes share a region of positive volume.
Overlap(b1, b2) ==
    \A i \in 1..3 :
        Larger(LowCorner(b1)[i], LowCorner(b2)[i])
            < Smaller(HighCorner(b1)[i], HighCorner(b2)[i])

AfterWrite == lastOp \in {"write", "rewrite"}

\* The positions of the "// entity N" lines of a file, and the j-th of them
\* counting from 0.
EntityCommentsOf(f) == {i \in 1..Len(f) : f[i].kind = "// entity"}
NthOf(S, j) == CHOOSE i \in S : Cardinality({m \in S : m < i}) = j

IsWorldspawn(e) == e.classname = "worldspawn"
Others(ents) == SelectSeq(ents, LAMBDA e : ~IsWorldspawn(e))

\* The position of the first worldspawn entity, 0 when there is none.
FirstWorldspawn(ents) ==
    IF \E i \in 1..Len(ents) : IsWorldspawn(ents[i])
    THEN CHOOSE i \in 1..Len(ents) :
            IsWorldspawn(ents[i]) /\ \A j \in 1..(i - 1) : ~IsWorldspawn(ents[j])
    ELSE 0

\* f holds the lines blk as a contiguous run.
Contains(f, blk) ==
    \E i \in 0..(Len(f) - Len(blk)) : SubSeq(f, i + 1, i + Len(blk)) = blk

\* The complete text of a numbered block for entity e.
BlockText(e, n) ==
    <<EntityComment(n), OpenBrace, ClassnameLine(e.classname)>>
        \o PropertyLines(e.properties)
        \o WriteBrushes(e.brushes).lines
        \o <<CloseBrace>>

BadPlane(brush) == \E i \in 1..Len(brush.planes) : Len(brush.planes[i]) # 3
Malformed(brush) == Len(brush.planes) # 6 \/ BadPlane(brush)

\* The brushes write reaches: the first worldspawn entity's, then those of
\* every entity that is not a worldspawn.
RECURSIVE BrushesOfAll(_)
BrushesOfAll(ents) ==
    IF ents = <<>> THEN <<>> ELSE Head(ents).brushes \o BrushesOfAll(Tail(ents))
Serialized(ents) ==
    (IF FirstWorldspawn(ents) = 0 THEN <<>> ELSE ents[FirstWorldspawn(ents)].brushes)
        \o BrushesOfAll(Others(ents))

RECURSIVE PlaneCount(_)
PlaneCount(brushes) ==
    IF brushes = <<>> THEN 0
    ELSE Len(Head(brushes).planes) + PlaneCount(Tail(brushes))

PlaneLinesOf(f) == Cardinality({i \in 1..Len(f) : f[i].kind = "plane"})

(***************************************************************************)
(* Properties                                                              *)
(***************************************************************************)

\* C1 (as claimed): for a box with min_corner < max_corner on every axis,
\* create_box_brush returns six planes, and for each of them, in the order
\* top, bottom, north, south, east, west, (p2 - p1) x (p3 - p1) points along
\* the face's outward axis.
C1_OutwardWinding ==
    (/\ call.fn = "create_box_brush"
     /\ \A i \in 1..3 : call.min_point[i] < call.max_point[i])
    => /\ Len(ret.planes) = 6
       /\ \A f \in 1..6 : PointsAlong(Normal(ret.planes[f]), OutwardAxis[f])

\* C2: after a write, the entity 0 block (header comment, opening brace,
\* worldspawn classname line, the brushes of the first worldspawn entity,
\* closing brace) is written whole before any numbered entity comment,
\* wherever the worldspawn entity was added.
C2_WorldspawnFirst ==
    (AfterWrite /\ (status = "ok" \/ Cardinality(EntityCommentsOf(file)) > 1))
    => LET w == FirstWorldspawn(entities)
           inner == IF w = 0 THEN <<>> ELSE WriteBrushes(entities[w].brushes).lines
           blk == <<GameComment, FormatComment, EntityComment(0), OpenBrace,
                    ClassnameLine("worldspawn")>> \o inner \o <<CloseBrace>>
       IN  /\ Len(file) >= Len(blk)
           /\ SubSeq(file, 1, Len(blk)) = blk
           /\ \A i \in EntityCommentsOf(file) : i # 3 => i > Len(blk)

\* C2 witness: light was added, then a worldspawn with a brush; the written
\* file opens the worldspawn's brush on line 6 and numbers light after it.
C2_Witness ==
    /\ AfterWrite
    /\ status = "ok"
    /\ Len(entities) = 2
    /\ entities[1].classname = "light"
    /\ entities[2].classname = "worldspawn"
    /\ entities[2].brushes = <<SampleBox>>
    /\ file[6] = OpenBrace
    /\ \E i \in 7..Len(file) : file[i] = EntityComment(1)

\* C3: after a write that ran through, the "// entity N" lines after the
\* header's are numbered 1, 2, ..., k, k being the number of entities that
\* are not a worldspawn, and the j-th of them opens the block of the j-th such
\* entity in insertion order (its classname line and property lines).
C3_ContiguousNumbering ==
    (AfterWrite /\ status = "ok")
    => LET S == EntityCommentsOf(file)
           others == Others(entities)
           k == Len(others)
       IN  /\ Cardinality(S) = k + 1
           /\ \A j \in 0..k : file[NthOf(S, j)].nums = <<j>>
           /\ \A j \in 1..k :
                LET c == NthOf(S, j)
                    head == <<OpenBrace, ClassnameLine(others[j].classname)>>
                                \o PropertyLines(others[j].properties)
                IN  /\ Len(file) >= c + Len(head)
                    /\ SubSeq(file, c + 1, c + Len(head)) = head

\* C3 witness: a worldspawn added first and another entity after it, written:
\* the other entity is numbered 1.
C3_Witness ==
    /\ AfterWrite
    /\ status = "ok"
    /\ Len(entities) = 2
    /\ IsWorldspawn(entities[1])
    /\ ~IsWorldspawn(entities[2])
    /\ \E i \in 1..Len(file) : file[i] = EntityComment(1)

\* C4 (as claimed): create_spiral_staircase with steps = 0 raises nothing and
\* returns the empty sequence.
C4_ZeroStepsEmpty ==
    (call.fn = "create_spiral_staircase" /\ call.steps = 0)
    => (raised = "none" /\ ret = <<>>)

\* C5 (as claimed): in a hollow room with thickness > 0 and every size
\* component > 2 * thickness, north and south span the full width, east and
\* west span only [y + thickness, y + d - thickness], and no two of the four
\* walls share a region of positive volume.
C5_WallsDisjoint ==
    (/\ call.fn = "create_hollow_room"
     /\ call.thickness > 0
     /\ \A i \in 1..3 : call.size[i] > 2 * call.thickness)
    => LET x == call.origin[1]
           y == call.origin[2]
           w == call.size[1]
           d == call.size[2]
           t == call.thickness
       IN  /\ \A i \in {3, 4} :
                LowCorner(ret[i])[1] = x /\ HighCorner(ret[i])[1] = x + w
           /\ \A i \in {5, 6} :
                LowCorner(ret[i])[2] = y + t /\ HighCorner(ret[i])[2] = y + d - t
           /\ \A i, j \in 3..6 : i < j => ~Overlap(ret[i], ret[j])

\* C6 (as claimed): after a write that ran through, every added entity other
\* than the first worldspawn has a numbered block of its own in the file,
\* holding its classname line, its property lines and its brushes.
C6_EveryEntityWritten ==
    (AfterWrite /\ status = "ok")
    => \A i \in 1..Len(entities) :
          i # FirstWorldspawn(entities)
          => \E n \in 1..Len(entities) : Contains(file, BlockText(entities[i], n))

\* C7: a write with no worldspawn entity added starts the file with the three
\* header comment lines, an opening brace, the worldspawn classname line and a
\* closing brace; with no entity at all the file is these six lines.
C7_EmptyWorldspawnBlock ==
    (AfterWrite /\ \A i \in 1..Len(entities) : ~IsWorldspawn(entities[i]))
    => /\ Len(file) >= 6
       /\ SubSeq(file, 1, 6) =
            <<GameComment, FormatComment, EntityComment(0), OpenBrace,
              ClassnameLine("worldspawn"), CloseBrace>>
       /\ entities = <<>> => (Len(file) = 6 /\ status = "ok")

\* C7 witness: write was called on a writer with no entity.
C7_Witness ==
    /\ AfterWrite
    /\ entities = <<>>
    /\ Len(file) = 6
    /\ file[6] = CloseBrace

\* C8: create_hollow_room returns six brushes, and each of the four walls
\* (the last four) has its bottom at origin_z + thickness, the top of the
\* floor slab, and its top at origin_z + height - thickness, the bottom of
\* the ceiling slab.
C8_SixBrushesWallSpan ==
    call.fn = "create_hollow_room"
    => LET z == call.origin[3]
           h == call.size[3]
           t == call.thickness
       IN  /\ Len(ret) = 6
           /\ LowCorner(ret[1])[3] = z /\ HighCorner(ret[1])[3] = z + t
           /\ LowCorner(ret[2])[3] = z + h - t /\ HighCorner(ret[2])[3] = z + h
           /\ \A i \in 3..6 :
                /\ LowCorner(ret[i])[3] = z + t
                /\ HighCorner(ret[i])[3] = z + h - t

\* C8 witness: the room of size (512, 512, 256) and thickness 16 at the
\* origin, whose walls span [16, 240].
C8_Witness ==
    /\ call.fn = "create_hollow_room"
    /\ call.origin = <<0, 0, 0>>
    /\ call.size = <<Q(512), Q(512), Q(256)>>
    /\ call.thickness = Q(16)
    /\ Len(ret) = 6
    /\ \A i \in 3..6 :
          LowCorner(ret[i])[3] = Q(16) /\ HighCorner(ret[i])[3] = Q(240)

\* C9: a write that directly follows a write leaves the file as the first
\* left it and ends the same way, and no write changes the entity list.
C9_WriteRepeatable ==
    [][/\ lastOp' = "rewrite" => (file' = file /\ status' = status)
       /\ lastOp' \in {"write", "rewrite"} => entities' = entities]_vars

\* C9 witness: write was called twice in a row on a writer holding two
\* entities, one with two properties, and the file lists them in insertion
\* order.
C9_Witness ==
    /\ lastOp = "rewrite"
    /\ status = "ok"
    /\ Len(entities) = 2
    /\ \E i \in 1..(Len(file) - 1) :
          /\ file[i] = PropertyLine("origin", "256 256 32")
          /\ file[i + 1] = PropertyLine("angle", "0")

\* C10 (as claimed): a write on a writer one of whose entities owns a
\* malformed brush (plane count other than six, or a plane of other than
\* three points) raises nothing.
C10_NoErrorOnMalformed ==
    (/\ AfterWrite
     /\ \E i \in 1..Len(entities) :
           \E b \in 1..Len(entities[i].brushes) : Malformed(entities[i].brushes[b]))
    => status = "ok"

\* C10 (amended): write checks no plane count: when every plane of every
\* brush it reaches holds three points, it raises nothing and writes one
\* plane line per plane, whatever the brushes' plane counts.  When a brush it
\* reaches has a plane of other than three points, it raises ValueError and
\* leaves the file cut short inside a brush.
C10_OnlyPointCountRaises ==
    AfterWrite
    => LET reached == Serialized(entities)
           bad == \E b \in 1..Len(reached) : BadPlane(reached[b])
       IN  /\ status = (IF bad THEN "ValueError" ELSE "ok")
           /\ ~bad => PlaneLinesOf(file) = PlaneCount(reached)
           /\ bad => /\ file[Len(file)] # CloseBrace
                     /\ PlaneLinesOf(file) < PlaneCount(reached)

\* C10 witness: a brush of two planes was written without error as two plane
\* lines.
C10_Witness ==
    /\ AfterWrite
    /\ status = "ok"
    /\ entities = <<add_entity("light", <<>>, <<TwoPlaneBrush>>)>>
    /\ PlaneLinesOf(file) = 2

====
